---- MODULE Spec2Model ----
(***************************************************************************)
(* Model of python-engine/main.py: the POST /optimize endpoint             *)
(* (optimize_portfolio) and its static fallback (fallback_optimization).   *)
(*                                                                         *)
(* One request is processed at a time; pc is the position of the handler   *)
(* inside optimize_portfolio.  The external collaborators (yfinance,       *)
(* PyPortfolioOpt) are the environment: each step draws their result from  *)
(* a small set.                                                            *)
(*                                                                         *)
(* Units.  Weights returned by clean_weights are integers in units of      *)
(* 1e-5 (clean_weights rounds to 5 decimals).  Percentages are integers in *)
(* hundredths of a percent (the code rounds every percentage to 2          *)
(* decimals), so 6000 is 60%.  round(x, 2) is modelled on exact rationals  *)
(* as round-half-to-even.                                                  *)
(***************************************************************************)
EXTENDS Integers, Sequences, FiniteSets

VARIABLES pc, request, data, collab, cleaned_weights, totals, portfolio_assets,
          speculative_allocation, reduction_factor, response, outcome, trace,
          rngState, prev

vars == <<pc, request, data, collab, cleaned_weights, totals, portfolio_assets,
          speculative_allocation, reduction_factor, response, outcome, trace,
          rngState, prev>>

----------------------------------------------------------------------------
(* Bounds of the model *)

\* risk_tolerance is an unvalidated int: the model draws 0..MaxRisk and one
\* far out-of-range value.
MaxRisk == 11
FarRisk == 24
\* states of the abstracted process-wide random generator
RngStates == 8
\* the generator's state when the process starts is one of 0..MaxInitSeed
MaxInitSeed == 1

----------------------------------------------------------------------------
(* Program constants *)

\* len(data) < 30
MinRows == 30
\* clean_weights rounds to 5 decimals: a weight of 1.0 is 100000 units
WeightOne == 100000
\* 100% in hundredths of a percent
Pct100 == 10000
\* random.seed(42)
SeedValue == 42

UNIVERSE ==
    [Stock      |-> <<"SPY", "QQQ", "VTI", "EEM">>,
     Crypto     |-> <<"BTC-USD", "ETH-USD", "SOL-USD">>,
     Commodity  |-> <<"GLD", "USO", "SLV">>,
     MutualFund |-> <<"VTSAX", "VFIAX">>]

Classes == <<"Stock", "Crypto", "Commodity", "MutualFund">>

tickers == UNIVERSE.Stock \o UNIVERSE.Crypto \o UNIVERSE.Commodity \o UNIVERSE.MutualFund

TickerSet == {tickers[i] : i \in 1..Len(tickers)}

----------------------------------------------------------------------------
(* Inputs *)

Risks == (0..MaxRisk) \cup {FarRisk}

Capitals == {1000, 250000}

\* market_data: None or a list of MarketAsset
MarketDatas == {<<>>, <<[symbol |-> "AAPL", type |-> "Stock"]>>}

Requests == [capital : Capitals, risk_tolerance : Risks, market_data : MarketDatas]

\* Results of yf.download: it raises, or returns a frame whose columns are a
\* MultiIndex with the given first level, or flat columns.
DownloadResults ==
    {[kind |-> "raise", multi |-> FALSE, level0 |-> {}, rows |-> 0]}
    \cup [kind : {"frame"}, multi : {TRUE},
          level0 : {{"Adj Close", "Close", "Volume"}, {"Close", "Volume"}, {"Volume"}},
          rows : {0, MinRows - 1, MinRows}]
    \cup [kind : {"frame"}, multi : {FALSE}, level0 : {{}}, rows : {0, MinRows - 1, MinRows}]

\* Results of lines 85-91: all three succeed, or the named call raises.
EstimateResults == {"ok", "mean_historical_return", "sample_cov", "EfficientFrontier"}

Weights(pairs) ==
    [t \in TickerSet |-> IF \E p \in pairs : p[1] = t
                         THEN (CHOOSE p \in pairs : p[1] = t)[2]
                         ELSE 0]

\* Cleaned weights the optimizer can return: non-negative, summing to 1.0.
WeightCases ==
    { Weights({<<"SPY", 100000>>}),
      Weights({<<"SPY", 60000>>, <<"BTC-USD", 25000>>, <<"GLD", 15000>>}),
      Weights({<<"QQQ", 33333>>, <<"VTI", 33334>>, <<"SLV", 33333>>}),
      Weights({<<"SPY", 99990>>, <<"ETH-USD", 10>>}),
      Weights({<<"VTSAX", 50000>>, <<"USO", 25004>>, <<"SOL-USD", 24996>>}) }

NoWeights == [t \in TickerSet |-> 0]

\* Results of the try block of lines 99-114.
OptimizerResults ==
    {[kind |-> "objective_raises", w |-> NoWeights],
     [kind |-> "clean_weights_raises", w |-> NoWeights]}
    \cup [kind : {"weights"}, w : WeightCases]

\* Results of ef.portfolio_performance: it raises, or returns
\* (return, volatility, sharpe) in units of 1e-5, 1e-5 and 1e-3.
PerfResults ==
    {[kind |-> "raise", ret |-> 0, vol |-> 0, sharpe |-> 0],
     [kind |-> "perf", ret |-> 12346, vol |-> 18002, sharpe |-> 686],
     [kind |-> "perf", ret |-> 31009, vol |-> 42114, sharpe |-> 1234]}

NotCalled == [kind |-> "not_called"]

NoCollab == [download |-> NotCalled, estimate |-> "not_called",
             optimizer |-> NotCalled, perf |-> NotCalled]

----------------------------------------------------------------------------
(* Helpers *)

InList(t, seq) == \E i \in 1..Len(seq) : seq[i] = t

Min(a, b) == IF a < b THEN a ELSE b

\* round(n / d) to the nearest integer, ties to even (Python's round)
RoundDiv(n, d) ==
    LET q == n \div d
        r == n % d
    IN  IF 2 * r < d THEN q
        ELSE IF 2 * r > d THEN q + 1
        ELSE IF q % 2 = 0 THEN q ELSE q + 1

RECURSIVE SumPct(_)
SumPct(alloc) ==
    IF alloc = <<>> THEN 0 ELSE alloc[1].percentage + SumPct(Tail(alloc))

----------------------------------------------------------------------------
(* Text values.  An f-string is its template with the values substituted. *)

Text(t, args) == [text |-> t, args |-> args]

FallbackSummary == Text("Live data unavailable. Using heuristic fallback model.", <<>>)

FallbackReturn == Text("10% (Est)", <<>>)

SharpeSummaryText ==
    "Mathematically optimized using Modern Portfolio Theory on live market data. Portfolio maximizes Sharpe Ratio ({sharpe}) given historical correlations."

ReturnText == "{ret}% Ann. Return (Vol: {vol}%, Sharpe: {sharpe})"

Item(class, pct, reasoning, assets) ==
    [assetClass |-> class, percentage |-> pct, reasoning |-> reasoning,
     recommendedAssets |-> assets]

NoResponse == [kind |-> "none"]

\* An exception that leaves optimize_portfolio: the framework answers 500.
ErrorResponse == [kind |-> "Internal Server Error"]

----------------------------------------------------------------------------
(* fallback_optimization *)

\* fallback_optimization with the crypto tier starting one risk level late
fallback_optimization_late_tier(capital, risk) ==
    LET stock     == IF risk < 8 THEN 60 ELSE 40
        crypto    == IF risk <= 4 THEN 0 ELSE (IF risk < 8 THEN 10 ELSE 40)
        commodity == 10
        cash      == 100 - (stock + crypto + commodity)
    IN  [allocation |->
            << Item("Stock", stock * 100, "Fallback Model", <<Text("SPY", <<>>)>>),
               Item("Crypto", crypto * 100, "Fallback Model", <<Text("BTC", <<>>)>>),
               Item("Commodity", commodity * 100, "Fallback Model", <<Text("GLD", <<>>)>>),
               Item("Cash", cash * 100, "Fallback Model", <<Text("USD", <<>>)>>) >>,
         totalProjectedReturn |-> FallbackReturn,
         riskScore |-> risk,
         agentSummary |-> FallbackSummary]

fallback_optimization(capital, risk) ==
    LET stock     == IF risk < 8 THEN 60 ELSE 40
        crypto    == IF risk < 4 THEN 0 ELSE (IF risk < 8 THEN 10 ELSE 40)
        commodity == 10
        cash      == 100 - (stock + crypto + commodity)
    IN  [allocation |->
            << Item("Stock", stock * 100, "Fallback Model", <<Text("SPY", <<>>)>>),
               Item("Crypto", crypto * 100, "Fallback Model", <<Text("BTC", <<>>)>>),
               Item("Commodity", commodity * 100, "Fallback Model", <<Text("GLD", <<>>)>>),
               Item("Cash", cash * 100, "Fallback Model", <<Text("USD", <<>>)>>) >>,
         totalProjectedReturn |-> FallbackReturn,
         riskScore |-> risk,
         agentSummary |-> FallbackSummary]

----------------------------------------------------------------------------
(* Step 1: price data, lines 59-76 *)

NoData == [kind |-> "none", column |-> "", rows |-> 0]

\* lines 59-72: the price columns taken from the downloaded frame
PriceData(raw) ==
    IF raw.kind = "raise" THEN [kind |-> "raise", column |-> "", rows |-> 0]
    ELSE IF raw.multi
         THEN IF "Adj Close" \in raw.level0
              THEN [kind |-> "data", column |-> "Adj Close", rows |-> raw.rows]
              ELSE IF "Close" \in raw.level0
                   THEN [kind |-> "data", column |-> "Close", rows |-> raw.rows]
                   ELSE [kind |-> "raise", column |-> "", rows |-> 0]
         ELSE [kind |-> "data", column |-> "flat", rows |-> raw.rows]

\* the check of line 74 without its length test
InsufficientDataEmptyOnly(d) == d.rows = 0

\* line 74: data.empty or len(data) < 30
InsufficientData(d) == d.rows = 0 \/ d.rows < MinRows

----------------------------------------------------------------------------
(* Step 2: risk mapping, lines 100-112 *)

\* the risk mapping with the low tier ending one level early
ObjectiveLowTierShort(risk) ==
    IF risk < 3 THEN "min_volatility"
    ELSE IF risk >= 8 THEN "max_sharpe"
    ELSE "max_sharpe"

Objective(risk) ==
    IF risk <= 3 THEN "min_volatility"
    ELSE IF risk >= 8 THEN "max_sharpe"
    ELSE "max_sharpe"

----------------------------------------------------------------------------
(* Step 3: weights into asset classes, lines 121-148 *)

ZeroTotals == [c \in {"Stock", "Crypto", "Commodity", "MutualFund"} |-> 0]

NoAssets == [c \in {"Stock", "Crypto", "Commodity", "MutualFund"} |-> <<>>]

ClassOf(t) ==
    IF InList(t, UNIVERSE.Stock) THEN "Stock"
    ELSE IF InList(t, UNIVERSE.Crypto) THEN "Crypto"
    ELSE IF InList(t, UNIVERSE.Commodity) THEN "Commodity"
    ELSE IF InList(t, UNIVERSE.MutualFund) THEN "MutualFund"
    ELSE "none"

\* w_pct = round(weight * 100, 2)
WPct(weight) == RoundDiv(weight * 100 * 100, WeightOne)

AssetText(ticker, pct) == Text(ticker, <<pct>>)

\* the loop of lines 128-142 from position i on
RECURSIVE ProcessWeights(_, _, _, _)
ProcessWeights(i, w, tot, assets) ==
    IF i > Len(tickers) THEN [totals |-> tot, assets |-> assets]
    ELSE LET t     == tickers[i]
             w_pct == WPct(w[t])
             c     == ClassOf(t)
         IN  IF w_pct > 0 /\ c # "none"
             THEN ProcessWeights(i + 1, w, [tot EXCEPT ![c] = @ + w_pct],
                                 [assets EXCEPT ![c] = Append(@, AssetText(t, w_pct))])
             ELSE ProcessWeights(i + 1, w, tot, assets)

\* line 146, in percent
CryptoBoost(risk) == Min(5, risk - 5)

\* lines 145-148
ForceCrypto(risk, b) ==
    IF risk >= 6 /\ b.totals["Crypto"] = 0
    THEN [totals |-> [b.totals EXCEPT !["Crypto"] = CryptoBoost(risk) * 100],
          assets |-> [b.assets EXCEPT !["Crypto"] =
                         Append(@, AssetText("BTC-USD", CryptoBoost(risk) * 100))]]
    ELSE b

----------------------------------------------------------------------------
(* Step 4: speculative overlay, lines 153-195 *)

\* The process-wide generator of the random module, abstracted to a small
\* state machine: every call returns a value that is a function of the state
\* and advances the state.
RandomSeed(a) == a % RngStates

RandomNext(s) == (s * 5 + 3) % RngStates

\* sorted(random.sample(range(lo, hi), 5))
RandomSample(s, lo, hi) == [i \in 1..5 |-> lo + (s % (hi - lo - 4)) + (i - 1)]

\* random.randint(lo, hi)
RandInt(s, lo, hi) == lo + (s % (hi - lo + 1))

\* the picks drawn without reseeding the generator
UnseededState(s) == s

\* line 183: the state the picks are drawn from
SeededState(s) == RandomSeed(SeedValue)

\* lines 183-185
LotteryPicks(s) ==
    LET s0 == SeededState(s)
        s1 == RandomNext(s0)
        s2 == RandomNext(s1)
        s3 == RandomNext(s2)
    IN  [powerball_nums |-> RandomSample(s0, 1, 70) \o <<RandInt(s1, 1, 26)>>,
         mega_nums      |-> RandomSample(s2, 1, 71) \o <<RandInt(s3, 1, 25)>>,
         state          |-> RandomNext(s3)]

\* the overlay condition as a strict comparison
DegenStrict(risk) == risk > 8

\* line 156
Degen(risk) == risk >= 8

\* lines 158-160, in percent
SpecPcts(risk) ==
    [prediction_pct |-> (risk - 7) * 3,
     sports_pct     |-> (risk - 7) * 2,
     lottery_pct    |-> (risk - 7) * 1]

\* lines 162-163: reduction_factor * 100
ReductionFactor(risk) ==
    IF Degen(risk)
    THEN LET p == SpecPcts(risk)
         IN  100 - (p.prediction_pct + p.sports_pct + p.lottery_pct)
    ELSE 100

\* lines 153-195
SpeculativeAllocation(risk, picks) ==
    IF Degen(risk)
    THEN LET p == SpecPcts(risk)
         IN << Item("Prediction", p.prediction_pct * 100,
                    "High-conviction binary alpha via prediction markets.",
                    <<Text("FED-RATES-JUN25", <<>>), Text("TRUMP-ELECTION-2028", <<>>),
                      Text("RECESSION-2025", <<>>)>>),
               Item("Sports", p.sports_pct * 100,
                    "Statistical edge in sports betting markets.",
                    <<Text("NBA: Lakers ML", <<>>), Text("NFL: Chiefs -3.5", <<>>),
                      Text("EPL: Man City Over 2.5", <<>>)>>),
               Item("Lottery", p.lottery_pct * 100,
                    "Positive convexity black swan exposure with optimized number selection.",
                    <<Text("POWERBALL", picks.powerball_nums),
                      Text("MEGA MILLIONS", picks.mega_nums)>>) >>
    ELSE <<>>

----------------------------------------------------------------------------
(* Step 5: core allocation and response, lines 197-245 *)

CoreReasoning ==
    [Stock      |-> "Mean-Variance Optimized equity basket.",
     Crypto     |-> "Efficient Frontier maximized crypto exposure.",
     Commodity  |-> "Uncorrelated diversification.",
     MutualFund |-> "Low-cost diversified index funds."]

\* round(total * reduction_factor, 2)
Reduced(total, factor) == RoundDiv(total * factor, 100)

\* lines 198-230 from class i on
RECURSIVE CoreAllocations(_, _, _, _)
CoreAllocations(i, tot, assets, factor) ==
    IF i > Len(Classes) THEN <<>>
    ELSE LET c == Classes[i]
         IN  (IF tot[c] > 0
              THEN <<Item(c, Reduced(tot[c], factor), CoreReasoning[c], assets[c])>>
              ELSE <<>>)
             \o CoreAllocations(i + 1, tot, assets, factor)

\* lines 236-245
OptimizedResponse(allocations, perf, risk) ==
    LET ret    == RoundDiv(perf.ret, 10)
        vol    == RoundDiv(perf.vol, 10)
        sharpe == RoundDiv(perf.sharpe, 10)
    IN  [allocation |-> allocations,
         totalProjectedReturn |-> Text(ReturnText, <<ret, vol, sharpe>>),
         riskScore |-> risk,
         agentSummary |-> Text(SharpeSummaryText, <<sharpe>>)]

----------------------------------------------------------------------------
(* State machine *)

NoRequest == [capital |-> 0, risk_tolerance |-> 0, market_data |-> <<>>]

\* prev is a history variable: the record of one earlier, finished request
\* (its inputs, what the collaborators returned to it, and its outcome), or
\* NoPrev.  While a record is kept, the requests that follow have its
\* risk_tolerance and the collaborators answer them as they answered it.
NoPrev == [kind |-> "none"]

Finished ==
    [kind |-> "request", request |-> request, collab |-> collab,
     response |-> response, outcome |-> outcome]

Replays(field, res) == IF prev.kind = "none" THEN TRUE ELSE res = prev.collab[field]

risk == request.risk_tolerance

capital == request.capital

Init ==
    /\ pc = "idle"
    /\ request = NoRequest
    /\ data = NoData
    /\ collab = NoCollab
    /\ cleaned_weights = NoWeights
    /\ totals = ZeroTotals
    /\ portfolio_assets = NoAssets
    /\ speculative_allocation = <<>>
    /\ reduction_factor = 100
    /\ response = NoResponse
    /\ outcome = "none"
    /\ trace = <<>>
    /\ rngState \in 0..MaxInitSeed
    /\ prev = NoPrev

\* A request arrives (lines 51-56); the locals of the previous call are gone.
Receive ==
    /\ pc \in {"idle", "done"}
    /\ \E keep \in BOOLEAN :
          prev' = IF keep /\ pc = "done" /\ prev.kind = "none" THEN Finished ELSE prev
    /\ \E req \in Requests :
          /\ prev'.kind = "request" => req.risk_tolerance = prev'.request.risk_tolerance
          /\ request' = req
    /\ pc' = "download"
    /\ data' = NoData
    /\ collab' = NoCollab
    /\ cleaned_weights' = NoWeights
    /\ totals' = ZeroTotals
    /\ portfolio_assets' = NoAssets
    /\ speculative_allocation' = <<>>
    /\ reduction_factor' = 100
    /\ response' = NoResponse
    /\ outcome' = "none"
    /\ trace' = <<>>
    /\ UNCHANGED rngState

\* return fallback_optimization(capital, risk), after the steps in `steps`
ReturnFallback(steps) ==
    /\ response' = fallback_optimization(capital, risk)
    /\ outcome' = "fallback"
    /\ trace' = trace \o steps \o <<"fallback">>
    /\ pc' = "done"

\* an exception propagates out of the handler, after the steps in `steps`
Propagate(steps) ==
    /\ response' = ErrorResponse
    /\ outcome' = "error"
    /\ trace' = trace \o steps \o <<"error">>
    /\ pc' = "done"

\* lines 57-80
Download ==
    /\ pc = "download"
    /\ \E raw \in DownloadResults :
          /\ Replays("download", raw)
          /\ collab' = [collab EXCEPT !.download = raw]
          /\ LET d == PriceData(raw)
             IN  IF (d.kind = "raise" \/ InsufficientData(d))
                 THEN /\ ReturnFallback(<<"download">>)
                      /\ UNCHANGED data
                 ELSE /\ data' = d
                      /\ trace' = Append(trace, "download")
                      /\ pc' = "estimate"
                      /\ UNCHANGED <<response, outcome>>
    /\ UNCHANGED <<request, cleaned_weights, totals, portfolio_assets,
                   speculative_allocation, reduction_factor, rngState, prev>>

\* the calls made before the named call of lines 85-91 raises
EstimateSteps(res) ==
    IF res = "mean_historical_return" THEN <<"mean_historical_return">>
    ELSE IF res = "sample_cov" THEN <<"mean_historical_return", "sample_cov">>
    ELSE <<"mean_historical_return", "sample_cov", "EfficientFrontier">>

\* lines 85-91
Estimate ==
    /\ pc = "estimate"
    /\ \E res \in EstimateResults :
          /\ Replays("estimate", res)
          /\ collab' = [collab EXCEPT !.estimate = res]
          /\ IF res = "ok"
             THEN /\ trace' = trace \o EstimateSteps(res)
                  /\ pc' = "optimize"
                  /\ UNCHANGED <<response, outcome>>
             ELSE Propagate(EstimateSteps(res))
    /\ UNCHANGED <<request, data, cleaned_weights, totals, portfolio_assets,
                   speculative_allocation, reduction_factor, rngState, prev>>

\* lines 97-117
Optimize ==
    /\ pc = "optimize"
    /\ \E res \in OptimizerResults :
          /\ Replays("optimizer", res)
          /\ collab' = [collab EXCEPT !.optimizer = res]
          /\ IF res.kind = "objective_raises"
             THEN /\ ReturnFallback(<<Objective(risk)>>)
                  /\ UNCHANGED cleaned_weights
             ELSE IF res.kind = "clean_weights_raises"
             THEN /\ ReturnFallback(<<Objective(risk), "clean_weights">>)
                  /\ UNCHANGED cleaned_weights
             ELSE /\ cleaned_weights' = res.w
                  /\ trace' = trace \o <<Objective(risk), "clean_weights">>
                  /\ pc' = "bucket"
                  /\ UNCHANGED <<response, outcome>>
    /\ UNCHANGED <<request, data, totals, portfolio_assets,
                   speculative_allocation, reduction_factor, rngState, prev>>

\* lines 121-148
Bucket ==
    /\ pc = "bucket"
    /\ LET b == ForceCrypto(risk, ProcessWeights(1, cleaned_weights, ZeroTotals, NoAssets))
       IN  /\ totals' = b.totals
           /\ portfolio_assets' = b.assets
    /\ trace' = Append(trace, "bucket")
    /\ pc' = "overlay"
    /\ UNCHANGED <<request, data, collab, cleaned_weights, speculative_allocation,
                   reduction_factor, response, outcome, rngState, prev>>

\* lines 153-195
Overlay ==
    /\ pc = "overlay"
    /\ LET picks == LotteryPicks(rngState)
       IN  /\ speculative_allocation' = SpeculativeAllocation(risk, picks)
           /\ rngState' = IF Degen(risk) THEN picks.state ELSE rngState
    /\ reduction_factor' = ReductionFactor(risk)
    /\ trace' = Append(trace, "overlay")
    /\ pc' = "format"
    /\ UNCHANGED <<request, data, collab, cleaned_weights, totals, portfolio_assets,
                   response, outcome, prev>>

\* lines 197-245
Format ==
    /\ pc = "format"
    /\ \E perf \in PerfResults :
          /\ Replays("perf", perf)
          /\ collab' = [collab EXCEPT !.perf = perf]
          /\ IF perf.kind = "raise"
             THEN Propagate(<<"format", "portfolio_performance">>)
             ELSE LET allocations ==
                          CoreAllocations(1, totals, portfolio_assets, reduction_factor)
                          \o speculative_allocation
                  IN  /\ response' = OptimizedResponse(allocations, perf, risk)
                      /\ outcome' = "optimized"
                      /\ trace' = trace \o <<"format", "portfolio_performance", "respond">>
                      /\ pc' = "done"
    /\ UNCHANGED <<request, data, cleaned_weights, totals, portfolio_assets,
                   speculative_allocation, reduction_factor, rngState, prev>>

Next == Receive \/ Download \/ Estimate \/ Optimize \/ Bucket \/ Overlay \/ Format

Spec == Init /\ [][Next]_vars

----------------------------------------------------------------------------
(* Vocabulary of the properties *)

Done == pc = "done"

Answered == Done /\ outcome \in {"optimized", "fallback"}

ObjectiveCalls == {"min_volatility", "max_sharpe"}

ResponseEvents == {"respond", "fallback", "error"}

Positions(events) == {i \in 1..Len(trace) : trace[i] \in events}

Before(events, i) == \E j \in 1..(i - 1) : trace[j] \in events

Entries(class) ==
    {i \in 1..Len(response.allocation) : response.allocation[i].assetClass = class}

HasEntry(class, pct) ==
    /\ Cardinality(Entries(class)) = 1
    /\ \A i \in Entries(class) : response.allocation[i].percentage = pct

SpeculativeClasses == {"Prediction", "Sports", "Lottery"}

NoSpeculativeEntry == \A c \in SpeculativeClasses : Entries(c) = {}

OverlayEntries(r) ==
    /\ HasEntry("Prediction", 3 * (r - 7) * 100)
    /\ HasEntry("Sports", 2 * (r - 7) * 100)
    /\ HasEntry("Lottery", 1 * (r - 7) * 100)

\* the download gave no usable price data
DownloadFailed(raw) ==
    \/ raw.kind = "raise"
    \/ /\ raw.kind = "frame"
       /\ \/ raw.multi /\ "Adj Close" \notin raw.level0 /\ "Close" \notin raw.level0
          \/ raw.rows = 0
          \/ raw.rows < 30

OptimizerFailed(res) == res.kind \in {"objective_raises", "clean_weights_raises"}

ClassPcts == [i \in 1..Len(response.allocation) |->
                <<response.allocation[i].assetClass, response.allocation[i].percentage>>]

----------------------------------------------------------------------------
(* C1 *)

\* C1: whenever the download raises, has no 'Adj Close'/'Close' columns, is
\* empty or has fewer than 30 rows, or the optimizer call raises, the request
\* ends with the static fallback response: Stock, Crypto, Commodity, Cash in
\* that order with 60/0/10/30 for risk < 4, 60/10/10/20 for 4 <= risk < 8 and
\* 40/40/10/10 for risk >= 8, riskScore = risk_tolerance and the 'Live data
\* unavailable' summary.
C1_FallbackOnFailure ==
    (DownloadFailed(collab.download) \/ OptimizerFailed(collab.optimizer)) =>
        /\ Done
        /\ outcome = "fallback"
        /\ ClassPcts =
              IF risk < 4
              THEN <<<<"Stock", 6000>>, <<"Crypto", 0>>, <<"Commodity", 1000>>, <<"Cash", 3000>>>>
              ELSE IF risk < 8
              THEN <<<<"Stock", 6000>>, <<"Crypto", 1000>>, <<"Commodity", 1000>>, <<"Cash", 2000>>>>
              ELSE <<<<"Stock", 4000>>, <<"Crypto", 4000>>, <<"Commodity", 1000>>, <<"Cash", 1000>>>>
        /\ response.riskScore = request.risk_tolerance
        /\ response.agentSummary.text = "Live data unavailable. Using heuristic fallback model."

C1_Witness ==
    /\ Done
    /\ outcome = "fallback"
    /\ collab.optimizer.kind = "clean_weights_raises"
    /\ risk >= 8

----------------------------------------------------------------------------
(* C2 *)

\* C2 as stated: every response for risk >= 8 contains Prediction, Sports and
\* Lottery with 3*(r-7), 2*(r-7), 1*(r-7) percent, and no response for
\* risk < 8 contains any of them.
C2_OverlayOnEveryResponse ==
    Answered => IF risk >= 8 THEN OverlayEntries(risk) ELSE NoSpeculativeEntry

\* C2 amended: every response of the optimized path for risk >= 8 contains
\* Prediction, Sports and Lottery with 3*(r-7), 2*(r-7), 1*(r-7) percent; no
\* response for risk < 8 and no fallback response contains any of them.
C2_OverlayOnOptimizedPath ==
    /\ (Done /\ outcome = "optimized") =>
          IF risk >= 8 THEN OverlayEntries(risk) ELSE NoSpeculativeEntry
    /\ (Done /\ outcome = "fallback") => NoSpeculativeEntry

C2_Witness ==
    /\ Done
    /\ outcome = "optimized"
    /\ risk = 9
    /\ HasEntry("Prediction", 600)
    /\ HasEntry("Sports", 400)
    /\ HasEntry("Lottery", 200)

----------------------------------------------------------------------------
(* C3 *)

Abs(n) == IF n < 0 THEN -n ELSE n

\* C3: for risk_tolerance in 1..10 and cleaned weights summing to 100%, the
\* percentages of the returned allocation sum to 100, up to 0.01 for each
\* entry and each rounded ticker weight.
C3_TotalsHundred ==
    (Answered /\ risk \in 1..10) =>
        Abs(SumPct(response.allocation) - Pct100)
            <= Len(response.allocation) + Len(tickers)

----------------------------------------------------------------------------
(* C4 *)

StepOrder ==
    <<{"download"}, {"mean_historical_return"}, {"sample_cov"}, {"EfficientFrontier"},
      ObjectiveCalls, {"clean_weights"}, {"bucket"}, {"overlay"}, {"format"},
      {"portfolio_performance"}, ResponseEvents>>

Rank(e) == CHOOSE k \in 1..Len(StepOrder) : e \in StepOrder[k]

\* C4: the steps of a request run in one fixed order, each at most once; the
\* optimizer is invoked only after the download completed with at least 30
\* rows of price data; bucketing only after clean_weights returned weights;
\* the overlay only after bucketing; the response is formatted last and a
\* finished request has produced exactly one response; after the fallback
\* no optimizer call, bucketing or overlay occurs.
C4_LinearOrder ==
    /\ \A i, j \in 1..Len(trace) : i < j => Rank(trace[i]) < Rank(trace[j])
    /\ \A i \in Positions(ObjectiveCalls) :
          /\ Before({"download"}, i)
          /\ data.kind = "data"
          /\ data.rows >= 30
    /\ \A i \in Positions({"bucket"}) :
          /\ Before({"clean_weights"}, i)
          /\ collab.optimizer.kind = "weights"
          /\ cleaned_weights = collab.optimizer.w
    /\ \A i \in Positions({"overlay"}) : Before({"bucket"}, i)
    /\ \A i \in Positions({"respond"}) : Before({"overlay"}, i) /\ Before({"format"}, i)
    /\ \A i \in Positions(ResponseEvents) : i = Len(trace)
    /\ Cardinality(Positions(ResponseEvents)) = IF Done THEN 1 ELSE 0
    /\ \A i \in Positions({"fallback"}) :
          \A j \in (i + 1)..Len(trace) :
              trace[j] \notin ObjectiveCalls \cup {"clean_weights", "bucket", "overlay"}

C4_Witness ==
    /\ Done
    /\ outcome = "optimized"
    /\ risk >= 8
    /\ trace = <<"download", "mean_historical_return", "sample_cov", "EfficientFrontier",
                 "max_sharpe", "clean_weights", "bucket", "overlay", "format",
                 "portfolio_performance", "respond">>

----------------------------------------------------------------------------
(* C5 *)

\* C5: a request with the same risk_tolerance as an earlier request, to which
\* the collaborators return the same results, gets the identical response
\* (lottery picks included), whatever its capital and market_data and
\* whatever requests came before.
C5_SameInputsSameResponse ==
    (/\ Done
     /\ prev.kind = "request"
     /\ risk = prev.request.risk_tolerance
     /\ collab = prev.collab) =>
        /\ response = prev.response
        /\ outcome = prev.outcome

C5_Witness ==
    /\ Done
    /\ prev.kind = "request"
    /\ collab = prev.collab
    /\ risk = prev.request.risk_tolerance
    /\ risk >= 8
    /\ outcome = "optimized"
    /\ request.capital # prev.request.capital
    /\ request.market_data # prev.request.market_data
    /\ response = prev.response

----------------------------------------------------------------------------
(* C6 *)

\* C6: at most one optimizer objective is invoked per request and exactly one
\* on the optimized path; it is min_volatility if and only if
\* risk_tolerance <= 3, and max_sharpe for every risk_tolerance >= 4.
C6_RiskMapping ==
    /\ Cardinality(Positions(ObjectiveCalls)) <= 1
    /\ (Done /\ outcome = "optimized") => Cardinality(Positions(ObjectiveCalls)) = 1
    /\ \A i \in Positions(ObjectiveCalls) :
          /\ trace[i] = "min_volatility" <=> risk <= 3
          /\ trace[i] = "max_sharpe" <=> risk >= 4

C6_Witness ==
    /\ Done
    /\ outcome = "optimized"
    /\ risk = 4
    /\ Positions({"max_sharpe"}) # {}

----------------------------------------------------------------------------
(* C7 *)

CryptoWeighted ==
    \E i \in 1..Len(UNIVERSE.Crypto) : cleaned_weights[UNIVERSE.Crypto[i]] > 0

CryptoRounded ==
    \E i \in 1..Len(UNIVERSE.Crypto) :
        RoundDiv(cleaned_weights[UNIVERSE.Crypto[i]], 10) > 0

\* C7: on the optimized path, for risk >= 6 the response has a Crypto entry
\* with a percentage > 0; when no crypto ticker got weight the crypto class is
\* min(5, r-5) percent before the reduction and its assets are the single
\* 'BTC-USD (boost%)'; for risk < 6 a Crypto entry appears only if a crypto
\* ticker got a positive rounded weight.
C7_ForcedCrypto ==
    (Done /\ outcome = "optimized") =>
        /\ risk >= 6 =>
              /\ Entries("Crypto") # {}
              /\ \A i \in Entries("Crypto") : response.allocation[i].percentage > 0
        /\ (risk >= 6 /\ ~CryptoWeighted) =>
              /\ totals["Crypto"] = (IF risk - 5 < 5 THEN risk - 5 ELSE 5) * 100
              /\ portfolio_assets["Crypto"] =
                    <<Text("BTC-USD", <<(IF risk - 5 < 5 THEN risk - 5 ELSE 5) * 100>>)>>
        /\ (risk < 6 /\ Entries("Crypto") # {}) => CryptoRounded

----------------------------------------------------------------------------
(* C8 *)

\* C8: a response whose summary says the portfolio 'maximizes Sharpe Ratio'
\* on 'live market data' is returned only when max_sharpe was the objective
\* invoked on downloaded data; a fallback response carries the 'Live data
\* unavailable' summary and the '10% (Est)' projected return.
C8_SummaryMatchesPath ==
    /\ (Answered /\ response.agentSummary.text = SharpeSummaryText) =>
          /\ Positions({"max_sharpe"}) # {}
          /\ Positions({"min_volatility"}) = {}
          /\ data.kind = "data"
    /\ (Done /\ outcome = "fallback") =>
          /\ response.agentSummary.text = "Live data unavailable. Using heuristic fallback model."
          /\ response.totalProjectedReturn.text = "10% (Est)"

----------------------------------------------------------------------------
(* C9 *)

\* C9: for every accepted risk_tolerance and non-negative weights summing to
\* 100%, every percentage of every returned entry is between 0 and 100.
C9_PercentagesInRange ==
    Answered =>
        \A i \in 1..Len(response.allocation) :
            /\ response.allocation[i].percentage >= 0
            /\ response.allocation[i].percentage <= Pct100

----------------------------------------------------------------------------
(* C10 *)

\* C10: a finished request ended in the optimized response or the fallback
\* response, never in an unhandled error, whichever collaborator step failed.
C10_NoUnhandledError ==
    Done => (outcome \in {"optimized", "fallback"} /\ response # ErrorResponse)

====
